---------------------------- MODULE Spec2Model ----------------------------
(***************************************************************************)
(* Block document model of the research-note editor (RichNoteEditor.tsx)   *)
(* and the consumers of its persisted string (ProjectView.tsx).            *)
(*                                                                         *)
(* JavaScript strings are TLA+ strings; they are taken apart and put       *)
(* together character by character with Len, SubSeq and \o.  An optional   *)
(* property of a JavaScript object is a field that is, or is not, in the   *)
(* DOMAIN of the record; a property whose value is undefined is modelled   *)
(* as an absent field (JSON.stringify drops it).                           *)
(***************************************************************************)
EXTENDS Integers, Sequences, FiniteSets, TLC

(***************************************************************************)
(* Bounds of the model.                                                    *)
(***************************************************************************)
MaxBlocks == 3
MaxClock == 1
MaxEdits == 1
MaxRows == 3
MaxCols == 4
MaxPoints == 4
MaxRawLen == 3

(***************************************************************************)
(* String primitives.                                                      *)
(***************************************************************************)
CharAt(s, i) == IF i >= 1 /\ i <= Len(s) THEN SubSeq(s, i, i) ELSE ""

startsWith(s, p) == Len(s) >= Len(p) /\ SubSeq(s, 1, Len(p)) = p

endsWith(s, p) == Len(s) >= Len(p) /\ SubSeq(s, Len(s) - Len(p) + 1, Len(s)) = p

WhiteSpace == {" ", "\n", "\t", "\r"}

RECURSIVE trimStart(_)
trimStart(s) ==
    IF s # "" /\ CharAt(s, 1) \in WhiteSpace THEN trimStart(SubSeq(s, 2, Len(s))) ELSE s

RECURSIVE trimEnd(_)
trimEnd(s) ==
    IF s # "" /\ CharAt(s, Len(s)) \in WhiteSpace THEN trimEnd(SubSeq(s, 1, Len(s) - 1)) ELSE s

trim(s) == trimEnd(trimStart(s))

RECURSIVE join(_, _)
join(parts, sep) ==
    IF Len(parts) = 0 THEN ""
    ELSE IF Len(parts) = 1 THEN parts[1]
    ELSE parts[1] \o sep \o join(Tail(parts), sep)

(***************************************************************************)
(* JSON.stringify, directed by the shape of Block / TableData / ChartData. *)
(***************************************************************************)
QuoteChar(c) ==
    CASE c = "\"" -> "\\\""
      [] c = "\\" -> "\\\\"
      [] c = "\n" -> "\\n"
      [] c = "\t" -> "\\t"
      [] c = "\r" -> "\\r"
      [] OTHER -> c

RECURSIVE QuoteChars(_)
QuoteChars(s) == IF s = "" THEN "" ELSE QuoteChar(CharAt(s, 1)) \o QuoteChars(SubSeq(s, 2, Len(s)))

Quote(s) == "\"" \o QuoteChars(s) \o "\""

StringifyNumber(n) == ToString(n)

StringifyStrings(strs) == "[" \o join([i \in 1..Len(strs) |-> Quote(strs[i])], ",") \o "]"

StringifyRows(rows) == "[" \o join([i \in 1..Len(rows) |-> StringifyStrings(rows[i])], ",") \o "]"

StringifyTableData(t) ==
    "{" \o "\"rows\":" \o StringifyRows(t.rows)
        \o (IF "colHeaders" \in DOMAIN t THEN ",\"colHeaders\":" \o StringifyStrings(t.colHeaders) ELSE "")
        \o (IF "rowHeaders" \in DOMAIN t THEN ",\"rowHeaders\":" \o StringifyStrings(t.rowHeaders) ELSE "")
        \o "}"

StringifyPoint(p) == "{\"name\":" \o Quote(p.name) \o ",\"value\":" \o StringifyNumber(p.value) \o "}"

StringifyChartData(c) ==
    "{" \o "\"type\":" \o Quote(c.type)
        \o (IF "title" \in DOMAIN c THEN ",\"title\":" \o Quote(c.title) ELSE "")
        \o ",\"data\":[" \o join([i \in 1..Len(c.data) |-> StringifyPoint(c.data[i])], ",") \o "]"
        \o (IF "xAxisLabel" \in DOMAIN c THEN ",\"xAxisLabel\":" \o Quote(c.xAxisLabel) ELSE "")
        \o (IF "yAxisLabel" \in DOMAIN c THEN ",\"yAxisLabel\":" \o Quote(c.yAxisLabel) ELSE "")
        \o "}"

StringifyBlock(b) ==
    "{" \o "\"id\":" \o Quote(b.id)
        \o ",\"type\":" \o Quote(b.type)
        \o ",\"content\":" \o Quote(b.content)
        \o (IF "width" \in DOMAIN b THEN ",\"width\":" \o StringifyNumber(b.width) ELSE "")
        \o (IF "tableData" \in DOMAIN b THEN ",\"tableData\":" \o StringifyTableData(b.tableData) ELSE "")
        \o (IF "chartData" \in DOMAIN b THEN ",\"chartData\":" \o StringifyChartData(b.chartData) ELSE "")
        \o "}"

JSONstringify(bs) == "[" \o join([i \in 1..Len(bs) |-> StringifyBlock(bs[i])], ",") \o "]"

(***************************************************************************)
(* JSON.parse: a recursive-descent parser of the JSON grammar.  A result   *)
(* is [ok, val, pos]: whether a value was read, the value, and the index   *)
(* of the first character after it.  Arrays become sequences, objects      *)
(* functions on their keys, strings strings, numbers integers.  Fractions, *)
(* exponents and \u escapes are outside the alphabets of the model and are *)
(* rejected.                                                               *)
(***************************************************************************)
Digits == "0123456789"

IsDigit(c) == c # "" /\ \E d \in 1..10 : CharAt(Digits, d) = c

DigitValue(c) == (CHOOSE d \in 1..10 : CharAt(Digits, d) = c) - 1

JSONnull == [null |-> TRUE]

ParseFail(i) == [ok |-> FALSE, val |-> JSONnull, pos |-> i]

ParseOk(v, i) == [ok |-> TRUE, val |-> v, pos |-> i]

RECURSIVE SkipWs(_, _)
SkipWs(s, i) == IF CharAt(s, i) \in WhiteSpace THEN SkipWs(s, i + 1) ELSE i

Unescape(e) ==
    CASE e = "n" -> "\n"
      [] e = "t" -> "\t"
      [] e = "r" -> "\r"
      [] OTHER -> e

RECURSIVE ParseString(_, _, _)
ParseString(s, i, acc) ==
    LET c == CharAt(s, i) IN
    IF c = "" \/ c \in {"\n", "\t", "\r"} THEN ParseFail(i)
    ELSE IF c = "\"" THEN ParseOk(acc, i + 1)
    ELSE IF c = "\\" THEN
        LET e == CharAt(s, i + 1) IN
        IF e \in {"\"", "\\", "/", "n", "t", "r"}
        THEN ParseString(s, i + 2, acc \o Unescape(e))
        ELSE ParseFail(i)
    ELSE ParseString(s, i + 1, acc \o c)

RECURSIVE ParseDigits(_, _, _)
ParseDigits(s, i, acc) ==
    IF IsDigit(CharAt(s, i)) THEN ParseDigits(s, i + 1, 10 * acc + DigitValue(CharAt(s, i)))
    ELSE ParseOk(acc, i)

ParseNumber(s, i) ==
    LET neg == CharAt(s, i) = "-"
        j == IF neg THEN i + 1 ELSE i
        c == CharAt(s, j)
    IN  IF ~IsDigit(c) THEN ParseFail(i)
        ELSE IF c = "0" THEN ParseOk(0, j + 1)
        ELSE LET r == ParseDigits(s, j, 0) IN ParseOk(IF neg THEN 0 - r.val ELSE r.val, r.pos)

RECURSIVE ParseValue(_, _)
RECURSIVE ParseElements(_, _, _)
RECURSIVE ParseMembers(_, _, _)

ParseElements(s, i, acc) ==
    LET r == ParseValue(s, i) IN
    IF ~r.ok THEN ParseFail(i)
    ELSE LET j == SkipWs(s, r.pos)
             c == CharAt(s, j)
         IN  IF c = "," THEN ParseElements(s, j + 1, Append(acc, r.val))
             ELSE IF c = "]" THEN ParseOk(Append(acc, r.val), j + 1)
             ELSE ParseFail(j)

ParseMembers(s, i, acc) ==
    LET k == SkipWs(s, i) IN
    IF CharAt(s, k) # "\"" THEN ParseFail(k)
    ELSE LET key == ParseString(s, k + 1, "") IN
         IF ~key.ok THEN ParseFail(k)
         ELSE LET colon == SkipWs(s, key.pos) IN
              IF CharAt(s, colon) # ":" THEN ParseFail(colon)
              ELSE LET r == ParseValue(s, colon + 1) IN
                   IF ~r.ok THEN ParseFail(colon)
                   ELSE LET j == SkipWs(s, r.pos)
                            c == CharAt(s, j)
                            obj == (key.val :> r.val) @@ acc
                        IN  IF c = "," THEN ParseMembers(s, j + 1, obj)
                            ELSE IF c = "}" THEN ParseOk(obj, j + 1)
                            ELSE ParseFail(j)

ParseValue(s, i) ==
    LET j == SkipWs(s, i)
        c == CharAt(s, j)
    IN  CASE c = "\"" -> ParseString(s, j + 1, "")
          [] c = "[" -> IF CharAt(s, SkipWs(s, j + 1)) = "]"
                        THEN ParseOk(<<>>, SkipWs(s, j + 1) + 1)
                        ELSE ParseElements(s, j + 1, <<>>)
          [] c = "{" -> IF CharAt(s, SkipWs(s, j + 1)) = "}"
                        THEN ParseOk(<<>>, SkipWs(s, j + 1) + 1)
                        ELSE ParseMembers(s, j + 1, <<>>)
          [] c = "-" \/ IsDigit(c) -> ParseNumber(s, j)
          [] startsWith(SubSeq(s, j, Len(s)), "true") -> ParseOk(TRUE, j + 4)
          [] startsWith(SubSeq(s, j, Len(s)), "false") -> ParseOk(FALSE, j + 5)
          [] startsWith(SubSeq(s, j, Len(s)), "null") -> ParseOk(JSONnull, j + 4)
          [] OTHER -> ParseFail(j)

\* JSON.parse(s): ok = FALSE stands for the SyntaxError it throws.
JSONparse(s) ==
    LET r == ParseValue(s, 1) IN
    IF r.ok /\ SkipWs(s, r.pos) = Len(s) + 1 THEN r ELSE ParseFail(r.pos)

(***************************************************************************)
(* TableBlock: the edits of one table.  Indices are 0-based as in the      *)
(* source; an edit that returns without calling onChange is a guard that   *)
(* is FALSE.                                                               *)
(***************************************************************************)
fromCharCode65(i) == CharAt("ABCDEFGHIJKLMNOPQRSTUVWXYZ", i + 1)

\* { ...o, [k]: v }
Spread(o, k, v) == (k :> v) @@ o

\* arr.filter((_, i) => i !== index)
filterIndex(arr, index) ==
    IF index >= 0 /\ index < Len(arr)
    THEN SubSeq(arr, 1, index) \o SubSeq(arr, index + 2, Len(arr))
    ELSE arr

updateCell(data, rowIndex, colIndex, v) ==
    Spread(data, "rows",
        [r \in 1..Len(data.rows) |->
            IF r - 1 = rowIndex
            THEN [c \in 1..Len(data.rows[r]) |-> IF c - 1 = colIndex THEN v ELSE data.rows[r][c]]
            ELSE data.rows[r]])

updateColHeader(data, colIndex, v) ==
    LET old == IF "colHeaders" \in DOMAIN data THEN data.colHeaders
               ELSE [c \in 1..Len(data.rows[1]) |-> fromCharCode65(c - 1)]
    IN  Spread(data, "colHeaders", [c \in 1..Len(old) |-> IF c - 1 = colIndex THEN v ELSE old[c]])

updateRowHeader(data, rowIndex, v) ==
    LET old == IF "rowHeaders" \in DOMAIN data THEN data.rowHeaders
               ELSE [r \in 1..Len(data.rows) |-> ToString(r)]
    IN  Spread(data, "rowHeaders", [r \in 1..Len(old) |-> IF r - 1 = rowIndex THEN v ELSE old[r]])

\* addRow with a new row one cell longer than the first row
addRow_Ragged(data) ==
    LET colCount == IF Len(data.rows) > 0 /\ Len(data.rows[1]) # 0 THEN Len(data.rows[1]) ELSE 1
        withRows == Spread(data, "rows", Append(data.rows, [c \in 1..(colCount + 1) |-> ""]))
    IN  IF "rowHeaders" \in DOMAIN data
        THEN Spread(withRows, "rowHeaders", Append(data.rowHeaders, ToString(Len(data.rows) + 1)))
        ELSE withRows

addRow(data) ==
    LET colCount == IF Len(data.rows) > 0 /\ Len(data.rows[1]) # 0 THEN Len(data.rows[1]) ELSE 1
        withRows == Spread(data, "rows", Append(data.rows, [c \in 1..colCount |-> ""]))
    IN  IF "rowHeaders" \in DOMAIN data
        THEN Spread(withRows, "rowHeaders", Append(data.rowHeaders, ToString(Len(data.rows) + 1)))
        ELSE withRows

removeRowEnabled(data) == Len(data.rows) > 1

removeRow(data, index) ==
    LET withRows == Spread(data, "rows", filterIndex(data.rows, index))
    IN  IF "rowHeaders" \in DOMAIN data
        THEN Spread(withRows, "rowHeaders", filterIndex(data.rowHeaders, index))
        ELSE withRows

addColumn(data) ==
    LET withRows == Spread(data, "rows", [r \in 1..Len(data.rows) |-> Append(data.rows[r], "")])
    IN  IF "colHeaders" \in DOMAIN data
        THEN Spread(withRows, "colHeaders", Append(data.colHeaders, fromCharCode65(Len(data.rows[1]))))
        ELSE withRows

removeColumnEnabled(data) == Len(data.rows[1]) > 1

\* removeColumn that leaves the stored column headers as they are
removeColumn_KeepHeaders(data, index) ==
    Spread(data, "rows", [r \in 1..Len(data.rows) |-> filterIndex(data.rows[r], index)])

removeColumn(data, index) ==
    LET withRows == Spread(data, "rows", [r \in 1..Len(data.rows) |-> filterIndex(data.rows[r], index)])
    IN  IF "colHeaders" \in DOMAIN data
        THEN Spread(withRows, "colHeaders", filterIndex(data.colHeaders, index))
        ELSE withRows

\* value={data.colHeaders?.[colIndex] || String.fromCharCode(65 + colIndex)}
colHeaderShown(data, colIndex) ==
    IF "colHeaders" \in DOMAIN data /\ colIndex < Len(data.colHeaders)
       /\ data.colHeaders[colIndex + 1] # ""
    THEN data.colHeaders[colIndex + 1]
    ELSE fromCharCode65(colIndex)

\* value={data.rowHeaders?.[rowIndex] || (rowIndex + 1).toString()}
rowHeaderShown(data, rowIndex) ==
    IF "rowHeaders" \in DOMAIN data /\ rowIndex < Len(data.rowHeaders)
       /\ data.rowHeaders[rowIndex + 1] # ""
    THEN data.rowHeaders[rowIndex + 1]
    ELSE ToString(rowIndex + 1)

(***************************************************************************)
(* ChartBlock: the edits of one chart.                                     *)
(***************************************************************************)
updatePointName(data, index, v) ==
    Spread(data, "data", [p \in 1..Len(data.data) |->
        IF p - 1 = index THEN Spread(data.data[p], "name", v) ELSE data.data[p]])

\* v is parseFloat(value) || 0 of a number input: a finite number
updatePointValue(data, index, v) ==
    Spread(data, "data", [p \in 1..Len(data.data) |->
        IF p - 1 = index THEN Spread(data.data[p], "value", v) ELSE data.data[p]])

addPoint(data) ==
    Spread(data, "data",
        Append(data.data, [name |-> "Point " \o ToString(Len(data.data) + 1), value |-> 0]))

\* removePoint without its test of the number of points
removePointEnabled_Always(data) == TRUE

removePointEnabled(data) == Len(data.data) > 1

removePoint(data, index) == Spread(data, "data", filterIndex(data.data, index))

toggleType(data) == Spread(data, "type", IF data.type = "line" THEN "bar" ELSE "line")

updateTitle(data, title) == Spread(data, "title", title)

updateAxisLabel(data, axis, label) ==
    IF axis = "x" THEN Spread(data, "xAxisLabel", label) ELSE Spread(data, "yAxisLabel", label)

(***************************************************************************)
(* RichNoteEditor: the state of one editing session.                       *)
(*   blocks   the state hook of the editor (useState<Block[]>)              *)
(*   value    the prop of the editor: the note's content string, which the *)
(*            parent sets to whatever string onChange hands it             *)
(*   pending  value has changed since the effect on [value] last ran       *)
(*   now      Date.now()                                                   *)
(*   op, pre  the handler that ran last, and blocks as it found them       *)
(*   edits    how many table and chart edits the session has made          *)
(*   thrown   the last handler ended in an uncaught exception              *)
(* TableBlock and ChartBlock on their own:                                 *)
(*   table    the data prop of a TableBlock                                *)
(*   chart    the data prop of a ChartBlock                                *)
(* ProjectView, the export:                                                *)
(*   notes        the notes of the project, in list order (their content)  *)
(*   isExporting  the state hook of the mounted ProjectView                *)
(*   error        the state hook of the mounted ProjectView, "" for null   *)
(*   runs         the calls of exportToPDF in flight, each with its own    *)
(*                locals (pdf, container, i) and the await it is parked at *)
(*   lastRun      the call of exportToPDF that returned last               *)
(*   canvas, loop one rasterised note and the locals of its slicing loop   *)
(***************************************************************************)
VARIABLES blocks, value, pending, now, op, pre, edits, thrown

VARIABLES table, chart

VARIABLES notes, isExporting, error, runs, lastRun

VARIABLES canvas, loop

VARIABLES readers

editorVars == <<blocks, value, pending, now, op, pre, edits, thrown>>

widgetVars == <<table, chart>>

exportVars == <<notes, isExporting, error, runs, lastRun>>

loopVars == <<canvas, loop>>

readerVars == <<readers>>

vars == <<editorVars, widgetVars, exportVars, loopVars, readerVars>>

TextInputs == {"a \"b\"\\\n"}

ImageInputs == {"data:image/png;base64,AA=="}

WidthInputs == {55}

IdInputs == {"initial"} \cup {ToString(t) : t \in 0..(MaxClock + 1)}

legacyBlocks(v) == <<[id |-> "initial", type |-> "text", content |-> v]>>

\* the effect with a catch branch that sets nothing
decode_EmptyCatch(v) ==
    IF startsWith(v, "[") /\ endsWith(v, "]")
    THEN LET r == JSONparse(v) IN IF r.ok THEN r.val ELSE <<>>
    ELSE legacyBlocks(v)

\* the body of the effect on [value]: what setBlocks is called with
decode(v) ==
    IF startsWith(v, "[") /\ endsWith(v, "]")
    THEN LET r == JSONparse(v) IN IF r.ok THEN r.val ELSE legacyBlocks(v)
    ELSE legacyBlocks(v)

InitEffect ==
    /\ pending
    /\ blocks' = decode(value)
    /\ pending' = FALSE
    /\ UNCHANGED <<value, now, op, pre, edits, thrown>>
    /\ UNCHANGED <<widgetVars, exportVars, loopVars, readerVars>>

\* onChange is handed the blocks of the last render instead of the new ones
updateBlocks_StaleEncode(newBlocks) ==
    /\ blocks' = newBlocks
    /\ value' = JSONstringify(blocks)
    /\ pending' = (value' # value)

updateBlocks(newBlocks) ==
    /\ blocks' = newBlocks
    /\ value' = JSONstringify(newBlocks)
    /\ pending' = (value' # value)

\* blocks.map(b => b.id === id ? { ...b, [k]: v } : b)
mapSet(bs, id, k, v) == [i \in 1..Len(bs) |-> IF bs[i].id = id THEN Spread(bs[i], k, v) ELSE bs[i]]

Ran(name, id) ==
    /\ op' = [name |-> name, id |-> id]
    /\ pre' = blocks
    /\ thrown' = FALSE
    /\ UNCHANGED <<widgetVars, exportVars, loopVars, readerVars>>

handleTextChange(id, content) ==
    /\ ~pending
    /\ updateBlocks(mapSet(blocks, id, "content", content))
    /\ Ran("handleTextChange", id)
    /\ UNCHANGED <<now, edits>>

handleImageResize(id, width) ==
    /\ ~pending
    /\ updateBlocks(mapSet(blocks, id, "width", width))
    /\ Ran("handleImageResize", id)
    /\ UNCHANGED <<now, edits>>

handleTableChange(id, tableData) ==
    /\ ~pending
    /\ updateBlocks(mapSet(blocks, id, "tableData", tableData))
    /\ Ran("handleTableChange", id)
    /\ UNCHANGED now

handleChartChange(id, chartData) ==
    /\ ~pending
    /\ updateBlocks(mapSet(blocks, id, "chartData", chartData))
    /\ Ran("handleChartChange", id)
    /\ UNCHANGED now

\* blocks.filter(b => b.id !== id)
RECURSIVE filterId(_, _)
filterId(bs, id) ==
    IF bs = <<>> THEN <<>>
    ELSE IF Head(bs).id # id THEN <<Head(bs)>> \o filterId(Tail(bs), id)
    ELSE filterId(Tail(bs), id)

\* A handler that throws before it sets any state.
Threw(name, id) ==
    /\ op' = [name |-> name, id |-> id]
    /\ pre' = blocks
    /\ thrown' = TRUE
    /\ UNCHANGED <<blocks, value, pending>>
    /\ UNCHANGED <<widgetVars, exportVars, loopVars, readerVars>>

\* removeBlock without the special case of the sole text block
removeBlock_AlwaysFilter(id) ==
    /\ ~pending
    /\ Len(blocks) >= 1
    /\ updateBlocks(filterId(blocks, id))
    /\ Ran("removeBlock", id)
    /\ UNCHANGED <<now, edits>>

\* On an empty array blocks[0] is undefined and blocks[0].type throws a
\* TypeError before any state is set.
removeBlock(id) ==
    /\ ~pending
    /\ IF Len(blocks) = 0 THEN Threw("removeBlock", id)
       ELSE /\ IF Len(blocks) <= 1 /\ blocks[1].type = "text"
               THEN updateBlocks(<<[id |-> ToString(now), type |-> "text", content |-> ""]>>)
               ELSE updateBlocks(filterId(blocks, id))
            /\ Ran("removeBlock", id)
    /\ UNCHANGED <<now, edits>>

emptyText(id) == [id |-> id, type |-> "text", content |-> ""]

newImageBlock(id, src) == [id |-> id, type |-> "image", content |-> src, width |-> 100]

newTableBlock(id) ==
    [id |-> id, type |-> "table", content |-> "",
     tableData |-> [rows |-> << <<"", "", "">>, <<"", "", "">> >>,
                    colHeaders |-> <<"A", "B", "C">>,
                    rowHeaders |-> <<"1", "2">>]]

newChartBlock(id) ==
    [id |-> id, type |-> "chart", content |-> "",
     chartData |-> [type |-> "line", title |-> "New Research Chart",
                    data |-> <<[name |-> "Jan", value |-> 400],
                               [name |-> "Feb", value |-> 300],
                               [name |-> "Mar", value |-> 600]>>]]

\* an add handler that appends the new block alone
appendPair_NoTrailingText(newBlock, t2) ==
    /\ ~pending
    /\ Len(blocks) + 2 <= MaxBlocks
    /\ t2 <= MaxClock
    /\ updateBlocks(blocks \o <<newBlock>>)
    /\ now' = t2
    /\ UNCHANGED edits

\* The two calls of Date.now() in an add handler read the clock at t and at
\* t2, one after the other: t2 is t or one millisecond later.
appendPair(newBlock, t2) ==
    /\ ~pending
    /\ Len(blocks) + 2 <= MaxBlocks
    /\ t2 <= MaxClock
    /\ updateBlocks(blocks \o <<newBlock, emptyText(ToString(t2 + 1))>>)
    /\ now' = t2
    /\ UNCHANGED edits

addImageBlock(src) ==
    \E t2 \in {now, now + 1} :
        /\ appendPair(newImageBlock(ToString(now), src), t2)
        /\ Ran("addImageBlock", ToString(now))

addTableBlock ==
    \E t2 \in {now, now + 1} :
        /\ appendPair(newTableBlock(ToString(now)), t2)
        /\ Ran("addTableBlock", ToString(now))

addChartBlock ==
    \E t2 \in {now, now + 1} :
        /\ appendPair(newChartBlock(ToString(now)), t2)
        /\ Ran("addChartBlock", ToString(now))

(***************************************************************************)
(* The controls of the TableBlock and of the ChartBlock rendered for block *)
(* i: each computes the new data and hands it to the block's onChange,     *)
(* which is handleTableChange / handleChartChange with the block's id.     *)
(***************************************************************************)
CellInputs == {"x\"y"}

HeaderInputs == {"H", ""}

LabelInputs == {"L"}

NumberInputs == {0, 7}

hasTable(i) == blocks[i].type = "table" /\ "tableData" \in DOMAIN blocks[i]

hasChart(i) == blocks[i].type # "text" /\ blocks[i].type # "image" /\ blocks[i].type # "table"
               /\ "chartData" \in DOMAIN blocks[i]

tableEdit(i, newData) ==
    /\ edits < MaxEdits
    /\ hasTable(i)
    /\ handleTableChange(blocks[i].id, newData)
    /\ edits' = edits + 1

chartEdit(i, newData) ==
    /\ edits < MaxEdits
    /\ hasChart(i)
    /\ handleChartChange(blocks[i].id, newData)
    /\ edits' = edits + 1

rowsOf(i) == blocks[i].tableData.rows

TableUpdateCell ==
    \E i \in 1..Len(blocks) : hasTable(i) /\
        \E r \in 0..(Len(rowsOf(i)) - 1), c \in 0..(Len(rowsOf(i)[1]) - 1), v \in CellInputs :
            tableEdit(i, updateCell(blocks[i].tableData, r, c, v))

TableUpdateColHeader ==
    \E i \in 1..Len(blocks) : hasTable(i) /\
        \E c \in 0..(Len(rowsOf(i)[1]) - 1), v \in HeaderInputs :
            tableEdit(i, updateColHeader(blocks[i].tableData, c, v))

TableUpdateRowHeader ==
    \E i \in 1..Len(blocks) : hasTable(i) /\
        \E r \in 0..(Len(rowsOf(i)) - 1), v \in HeaderInputs :
            tableEdit(i, updateRowHeader(blocks[i].tableData, r, v))

TableAddRow ==
    \E i \in 1..Len(blocks) : hasTable(i) /\ Len(rowsOf(i)) < MaxRows
        /\ tableEdit(i, addRow(blocks[i].tableData))

TableRemoveRow ==
    \E i \in 1..Len(blocks) : hasTable(i) /\ removeRowEnabled(blocks[i].tableData) /\
        \E r \in 0..(Len(rowsOf(i)) - 1) : tableEdit(i, removeRow(blocks[i].tableData, r))

TableAddColumn ==
    \E i \in 1..Len(blocks) : hasTable(i) /\ Len(rowsOf(i)[1]) < MaxCols
        /\ tableEdit(i, addColumn(blocks[i].tableData))

TableRemoveColumn ==
    \E i \in 1..Len(blocks) : hasTable(i) /\ removeColumnEnabled(blocks[i].tableData) /\
        \E c \in 0..(Len(rowsOf(i)[1]) - 1) : tableEdit(i, removeColumn(blocks[i].tableData, c))

pointsOf(i) == blocks[i].chartData.data

ChartUpdatePoint ==
    \E i \in 1..Len(blocks) : hasChart(i) /\
        \E p \in 0..(Len(pointsOf(i)) - 1) :
            \/ \E v \in LabelInputs : chartEdit(i, updatePointName(blocks[i].chartData, p, v))
            \/ \E v \in NumberInputs : chartEdit(i, updatePointValue(blocks[i].chartData, p, v))

ChartAddPoint ==
    \E i \in 1..Len(blocks) : hasChart(i) /\ Len(pointsOf(i)) < MaxPoints
        /\ chartEdit(i, addPoint(blocks[i].chartData))

ChartRemovePoint ==
    \E i \in 1..Len(blocks) : hasChart(i) /\ removePointEnabled(blocks[i].chartData) /\
        \E p \in 0..(Len(pointsOf(i)) - 1) : chartEdit(i, removePoint(blocks[i].chartData, p))

ChartToggleType ==
    \E i \in 1..Len(blocks) : hasChart(i) /\ chartEdit(i, toggleType(blocks[i].chartData))

ChartUpdateLabels ==
    \E i \in 1..Len(blocks) : hasChart(i) /\
        \E v \in LabelInputs :
            \/ chartEdit(i, updateTitle(blocks[i].chartData, v))
            \/ \E axis \in {"x", "y"} : chartEdit(i, updateAxisLabel(blocks[i].chartData, axis, v))

\* a millisecond passes between two events
Tick ==
    /\ now < MaxClock
    /\ now' = now + 1
    /\ UNCHANGED <<blocks, value, pending, op, pre, edits, thrown>>
    /\ UNCHANGED <<widgetVars, exportVars, loopVars, readerVars>>

\* no TableBlock or ChartBlock is looked at on its own: the props are the
\* data of a new table and of a new chart
NoWidgets ==
    /\ table = newTableBlock("0").tableData
    /\ chart = newChartBlock("0").chartData

\* ProjectView as it mounts, on a project without notes
NoExport ==
    /\ notes = <<>>
    /\ isExporting = FALSE
    /\ error = ""
    /\ runs = <<>>
    /\ lastRun = [pc |-> "none"]

\* no note has been rasterised
NoCanvas ==
    /\ canvas = [width |-> 0, height |-> 0]
    /\ loop = [heightLeftPx |-> 0, sourceY |-> 0, pageNum |-> 0, slices |-> <<>>, done |-> TRUE]

\* no FileReader has been started
NoReaders == readers = <<>>

\* The editor of a new note: value is '' and the effect has run once.
NewNote ==
    /\ value = ""
    /\ blocks = decode("")
    /\ pending = FALSE
    /\ now = 0
    /\ op = [name |-> "mount", id |-> ""]
    /\ pre = <<>>
    /\ edits = 0
    /\ thrown = FALSE

Init == NewNote /\ NoWidgets /\ NoExport /\ NoCanvas /\ NoReaders

InitialiseFromValue == InitEffect

(***************************************************************************)
(* Image files pasted or dropped on the editor.  handlePaste and           *)
(* handleDrop start one FileReader for every image file of the event; the  *)
(* onload callback of each calls the addImageBlock of the render in which  *)
(* the event was handled, whose blocks are the blocks of that render.      *)
(* readers holds the readers of the last event: the data URL each reads,   *)
(* the blocks its callback closes over, and whether it has completed.      *)
(***************************************************************************)
MaxFiles == 2

\* what readAsDataURL yields for the k-th file of an event
fileResult(k) == "data:image/png;base64," \o ToString(k)

\* handlePaste and handleDrop on an event that carries n image files
handlePaste(n) ==
    /\ ~pending
    /\ \A k \in 1..Len(readers) : readers[k].done
    /\ Len(blocks) + 2 <= MaxBlocks
    /\ readers' = [k \in 1..n |-> [src |-> fileResult(k), closure |-> blocks, done |-> FALSE]]
    /\ op' = [name |-> "handlePaste", id |-> ""]
    /\ pre' = blocks
    /\ thrown' = FALSE
    /\ UNCHANGED <<blocks, value, pending, now, edits>>
    /\ UNCHANGED <<widgetVars, exportVars, loopVars>>

PasteFiles == \E n \in 1..MaxFiles : handlePaste(n)

\* reader.onload of the k-th reader: addImageBlock(event.target.result),
\* where blocks is what the callback closes over.  The reads of one event
\* complete in any order.
onload(k) ==
    /\ ~pending
    /\ ~readers[k].done
    /\ \E t2 \in {now, now + 1} :
           /\ t2 <= MaxClock
           /\ updateBlocks(readers[k].closure
                             \o <<newImageBlock(ToString(now), readers[k].src),
                                  emptyText(ToString(t2 + 1))>>)
           /\ now' = t2
    /\ readers' = [readers EXCEPT ![k].done = TRUE]
    /\ op' = [name |-> "addImageBlock", id |-> ToString(now)]
    /\ pre' = blocks
    /\ thrown' = FALSE
    /\ UNCHANGED edits
    /\ UNCHANGED <<widgetVars, exportVars, loopVars>>

ReadCompleted == \E k \in 1..Len(readers) : onload(k)


EditText ==
    \E i \in 1..Len(blocks), content \in TextInputs :
        blocks[i].type = "text" /\ handleTextChange(blocks[i].id, content)

ResizeImage ==
    \E i \in 1..Len(blocks), width \in WidthInputs :
        blocks[i].type = "image" /\ handleImageResize(blocks[i].id, width)

RemoveBlock == \E id \in IdInputs : removeBlock(id)

PasteImage == \E src \in ImageInputs : addImageBlock(src)

\* An editing session: text edits, image resizes, insertions and removals.
Next ==
    \/ InitialiseFromValue
    \/ EditText
    \/ ResizeImage
    \/ RemoveBlock
    \/ PasteImage
    \/ addTableBlock
    \/ addChartBlock
    \/ Tick

Spec == Init /\ [][Next]_vars

\* An editing session in which image files are pasted or dropped, and text
\* is edited and images are resized while the files are read.
NextPaste ==
    \/ InitialiseFromValue
    \/ PasteFiles
    \/ ReadCompleted
    \/ EditText
    \/ ResizeImage
    \/ Tick

SpecPaste == Init /\ [][NextPaste]_vars

\* An editing session that inserts blocks and edits them, tables and charts
\* included, and removes none.
NextEdit ==
    \/ InitialiseFromValue
    \/ EditText
    \/ ResizeImage
    \/ PasteImage
    \/ addTableBlock
    \/ addChartBlock
    \/ TableUpdateCell
    \/ TableUpdateColHeader
    \/ TableUpdateRowHeader
    \/ TableAddRow
    \/ TableRemoveRow
    \/ TableAddColumn
    \/ TableRemoveColumn
    \/ ChartUpdatePoint
    \/ ChartAddPoint
    \/ ChartRemovePoint
    \/ ChartToggleType
    \/ ChartUpdateLabels

SpecEdit == Init /\ [][NextEdit]_vars

\* An editing session that inserts and removes blocks and uses the add-row
\* button of a table and the toggle of a chart.
NextVariant ==
    \/ InitialiseFromValue
    \/ RemoveBlock
    \/ addTableBlock
    \/ addChartBlock
    \/ TableAddRow
    \/ ChartToggleType
    \/ Tick

SpecVariant == Init /\ [][NextVariant]_vars

(***************************************************************************)
(* Opening the editor on a stored note: the component mounts with an empty *)
(* blocks array and the note's content as value, and the effect runs.      *)
(***************************************************************************)
RawAlphabet == {"[", "]", " ", ",", "1", "a"}

RECURSIVE RawStrings(_)
RawStrings(n) ==
    IF n = 0 THEN {""}
    ELSE LET shorter == RawStrings(n - 1)
         IN  shorter \cup {s \o c : s \in shorter, c \in RawAlphabet}

StoredDocuments ==
    { <<emptyText("initial")>>,
      <<[id |-> "initial", type |-> "text", content |-> "a"], newImageBlock("0", "data:,"), emptyText("1")>>,
      <<emptyText("initial"), newTableBlock("0"), emptyText("1")>>,
      <<newChartBlock("0")>> }

Padding == {"", " ", "\n"}

RawInputs ==
    RawStrings(MaxRawLen)
        \cup {l \o JSONstringify(d) \o r : l \in Padding, r \in Padding, d \in StoredDocuments}
        \cup {"[not valid json", "plain text", "[{\"id\":\"0\"]", "{\"id\":\"0\"}"}

InitDecode ==
    /\ value \in RawInputs
    /\ blocks = <<>>
    /\ pending = TRUE
    /\ now = 0
    /\ op = [name |-> "mount", id |-> ""]
    /\ pre = <<>>
    /\ edits = 0
    /\ thrown = FALSE
    /\ NoWidgets /\ NoExport /\ NoCanvas /\ NoReaders

NextDecode == InitialiseFromValue

SpecDecode == InitDecode /\ [][NextDecode]_vars

(***************************************************************************)
(* The handlers of the editor called with any id on the documents that the *)
(* effect decodes from stored notes: the empty array, arrays of blocks,    *)
(* legacy text and a string that fails to parse.                           *)
(***************************************************************************)
StoreInputs ==
    {"[]", "plain text", "[not valid json",
     JSONstringify(<<newImageBlock("0", "data:,"), emptyText("1")>>),
     JSONstringify(<<newTableBlock("0")>>),
     JSONstringify(<<newChartBlock("0")>>),
     JSONstringify(<<[id |-> "0", type |-> "image", content |-> "data:,", width |-> 250]>>)}

InitStore ==
    /\ value \in StoreInputs
    /\ blocks = <<>>
    /\ pending = TRUE
    /\ now = 0
    /\ op = [name |-> "mount", id |-> ""]
    /\ pre = <<>>
    /\ edits = 0
    /\ thrown = FALSE
    /\ NoWidgets /\ NoExport /\ NoCanvas /\ NoReaders

TextChange == \E id \in IdInputs, content \in TextInputs : handleTextChange(id, content)

ImageResize == \E id \in IdInputs, width \in WidthInputs : handleImageResize(id, width)

TableChange ==
    \E id \in IdInputs :
        /\ edits < MaxEdits
        /\ handleTableChange(id, addRow(newTableBlock(id).tableData))
        /\ edits' = edits + 1

ChartChange ==
    \E id \in IdInputs :
        /\ edits < MaxEdits
        /\ handleChartChange(id, toggleType(newChartBlock(id).chartData))
        /\ edits' = edits + 1

NextStore ==
    \/ InitialiseFromValue
    \/ RemoveBlock
    \/ TextChange
    \/ ImageResize
    \/ TableChange
    \/ ChartChange

SpecStore == InitStore /\ [][NextStore]_vars

(***************************************************************************)
(* A TableBlock and a ChartBlock on their own: the parent hands back as    *)
(* the data prop whatever onChange is called with.  A control whose        *)
(* handler returns before onChange leaves the prop as it is.  op and pre   *)
(* are the handler that ran last and the data as it found them.            *)
(***************************************************************************)
Edited(name, index, data) ==
    /\ op' = [name |-> name, id |-> ToString(index)]
    /\ pre' = data
    /\ UNCHANGED <<blocks, value, pending, now, thrown>>
    /\ UNCHANGED <<exportVars, loopVars, readerVars>>

TableBlockUpdateCell ==
    \E r \in 0..(Len(table.rows) - 1), c \in 0..(Len(table.rows[1]) - 1), v \in CellInputs :
        /\ edits < MaxEdits
        /\ table' = updateCell(table, r, c, v)
        /\ edits' = edits + 1
        /\ Edited("updateCell", r, table)
        /\ UNCHANGED chart

TableBlockUpdateHeader ==
    \E v \in HeaderInputs :
        /\ edits < MaxEdits
        /\ edits' = edits + 1
        /\ UNCHANGED chart
        /\ \/ \E c \in 0..(Len(table.rows[1]) - 1) :
                  table' = updateColHeader(table, c, v) /\ Edited("updateColHeader", c, table)
           \/ \E r \in 0..(Len(table.rows) - 1) :
                  table' = updateRowHeader(table, r, v) /\ Edited("updateRowHeader", r, table)

TableBlockAddRow ==
    /\ Len(table.rows) < MaxRows
    /\ table' = addRow(table)
    /\ Edited("addRow", Len(table.rows), table)
    /\ UNCHANGED <<chart, edits>>

TableBlockRemoveRow ==
    \E r \in 0..(Len(table.rows) - 1) :
        /\ table' = IF removeRowEnabled(table) THEN removeRow(table, r) ELSE table
        /\ Edited("removeRow", r, table)
        /\ UNCHANGED <<chart, edits>>

TableBlockAddColumn ==
    /\ Len(table.rows[1]) < MaxCols
    /\ table' = addColumn(table)
    /\ Edited("addColumn", Len(table.rows[1]), table)
    /\ UNCHANGED <<chart, edits>>

TableBlockRemoveColumn ==
    \E c \in 0..(Len(table.rows[1]) - 1) :
        /\ table' = IF removeColumnEnabled(table) THEN removeColumn(table, c) ELSE table
        /\ Edited("removeColumn", c, table)
        /\ UNCHANGED <<chart, edits>>

NextTable ==
    \/ TableBlockUpdateCell
    \/ TableBlockUpdateHeader
    \/ TableBlockAddRow
    \/ TableBlockRemoveRow
    \/ TableBlockAddColumn
    \/ TableBlockRemoveColumn

\* the table of addTableBlock, or a stored table of the same shape without
\* headers (colHeaders and rowHeaders are optional)
InitTable ==
    /\ table \in {newTableBlock("0").tableData, [rows |-> newTableBlock("0").tableData.rows]}
    /\ chart = newChartBlock("0").chartData
    /\ NewNote /\ NoExport /\ NoCanvas /\ NoReaders

\* a table and the edits made with its controls
SpecTable == InitTable /\ [][NextTable]_vars

ChartBlockUpdatePoint ==
    \E p \in 0..(Len(chart.data) - 1) :
        /\ edits < MaxEdits
        /\ edits' = edits + 1
        /\ \/ \E v \in LabelInputs : chart' = updatePointName(chart, p, v)
           \/ \E v \in NumberInputs : chart' = updatePointValue(chart, p, v)
        /\ Edited("updatePoint", p, chart)
        /\ UNCHANGED table

ChartBlockAddPoint ==
    /\ Len(chart.data) < MaxPoints
    /\ chart' = addPoint(chart)
    /\ Edited("addPoint", Len(chart.data), chart)
    /\ UNCHANGED <<table, edits>>

ChartBlockRemovePoint ==
    \E p \in 0..(Len(chart.data) - 1) :
        /\ chart' = IF removePointEnabled(chart) THEN removePoint(chart, p) ELSE chart
        /\ Edited("removePoint", p, chart)
        /\ UNCHANGED <<table, edits>>

ChartBlockToggleType ==
    /\ chart' = toggleType(chart)
    /\ Edited("toggleType", 0, chart)
    /\ UNCHANGED <<table, edits>>

NextChart ==
    \/ ChartBlockUpdatePoint
    \/ ChartBlockAddPoint
    \/ ChartBlockRemovePoint
    \/ ChartBlockToggleType

\* the chart of addChartBlock and the edits made with its controls
SpecChart == Init /\ [][NextChart]_vars

(***************************************************************************)
(* ProjectView.exportToPDF: the loop that slices one rasterised note into  *)
(* pages.  canvas.width and canvas.height are whole pixels.  pxPerPage is  *)
(* (pageContentHeight * canvas.width) / imgWidth, which is not a whole     *)
(* number: heightLeftPx, sourceY and the slice heights are therefore held  *)
(* in units of 1/imgWidth pixel, in which every value of the loop is an    *)
(* integer and the arithmetic is exact (the rounding of the doubles of the *)
(* source is not modelled).  getContext('2d') is taken to return a         *)
(* context, so that every iteration places its slice.                      *)
(***************************************************************************)
MaxCanvasWidth == 2

MaxCanvasHeight == 32

\* jsPDF('p', 'mm', 'a4'): the page is 210 mm by 297 mm
pageWidth == 210

pageHeight == 297

margin == 10

SafetyLimit == 20

imgWidth == pageWidth - (margin * 2)

pageContentHeight == pageHeight - (margin * 2)

min(a, b) == IF a < b THEN a ELSE b

\* in units of 1/imgWidth pixel
pxPerPage(cv) == pageContentHeight * cv.width

\* the test of a loop that goes round once more when nothing is left
whileCond_Inclusive(heightLeftPx) == heightLeftPx >= 0

whileCond(heightLeftPx) == heightLeftPx > 0

\* let heightLeftPx = canvas.height; let sourceY = 0; let pageNum = 0;
loopStart(cv) ==
    [heightLeftPx |-> cv.height * imgWidth, sourceY |-> 0, pageNum |-> 0,
     slices |-> <<>>, done |-> ~whileCond(cv.height * imgWidth)]

\* an iteration that always cuts a full page
sliceStep_FullPage(cv, l) ==
    LET currentSliceHeightPx == pxPerPage(cv)
        pageNum == l.pageNum + 1
    IN  [heightLeftPx |-> l.heightLeftPx - currentSliceHeightPx,
         sourceY |-> l.sourceY + currentSliceHeightPx,
         pageNum |-> pageNum,
         slices |-> Append(l.slices, [sourceY |-> l.sourceY, height |-> currentSliceHeightPx]),
         done |-> pageNum > SafetyLimit \/ ~whileCond(l.heightLeftPx - currentSliceHeightPx)]

\* one iteration of the while loop; done: the break was taken or the test
\* of the loop is false
sliceStep(cv, l) ==
    LET currentSliceHeightPx == min(l.heightLeftPx, pxPerPage(cv))
        pageNum == l.pageNum + 1
    IN  [heightLeftPx |-> l.heightLeftPx - currentSliceHeightPx,
         sourceY |-> l.sourceY + currentSliceHeightPx,
         pageNum |-> pageNum,
         slices |-> Append(l.slices, [sourceY |-> l.sourceY, height |-> currentSliceHeightPx]),
         done |-> pageNum > SafetyLimit \/ ~whileCond(l.heightLeftPx - currentSliceHeightPx)]

\* the whole loop
RECURSIVE paginate(_, _)
paginate(cv, l) ==
    IF l.done THEN l
    ELSE \* the state after an iteration is computed once
         CHOOSE out \in {paginate(cv, next) : next \in {sliceStep(cv, l)}} : TRUE

\* html2canvas has resolved with a canvas for one note
InitPaginate ==
    /\ canvas \in [width : 0..MaxCanvasWidth, height : 0..MaxCanvasHeight]
    /\ loop = loopStart(canvas)
    /\ NewNote /\ NoWidgets /\ NoExport /\ NoReaders

SliceIteration ==
    /\ ~loop.done
    /\ loop' = sliceStep(canvas, loop)
    /\ UNCHANGED <<canvas, editorVars, widgetVars, exportVars, readerVars>>

NextPaginate == SliceIteration

SpecPaginate == InitPaginate /\ [][NextPaginate]_vars

(***************************************************************************)
(* ProjectView.exportToPDF: the export of the notes of a project.  A call  *)
(* runs to its first await and is resumed when html2canvas resolves or     *)
(* rejects; between two awaits it runs without interruption.  A run is     *)
(*   mounted    the ProjectView that made the call is still on screen      *)
(*   pc         "cover" or "note": the html2canvas call it awaits          *)
(*   i          the note of the for loop, counted from 1                   *)
(*   pdf        the pages of the jsPDF document; a page is the for-loop    *)
(*              iteration that added it (0: the page jsPDF starts with)    *)
(*              and the images placed on it                                *)
(*   container  the off-screen div is attached to document.body            *)
(*   rendered   the body put into the container for each note so far       *)
(*   slicesOf   the number of slices cut for each note so far              *)
(*   saved      pdf.save has written the file                              *)
(*   threw, message  the error the catch clause caught                     *)
(***************************************************************************)
MaxNotes == 2

MaxRuns == 2

MaxNoteHeight == 2

\* a note that looks like a block array and is not one, a note that is one,
\* and a legacy note
NoteContents ==
    << "[not valid json]",
       JSONstringify(<<[id |-> "initial", type |-> "text", content |-> "a"],
                       newImageBlock("0", "data:,"), newTableBlock("1")>>),
       "plain text" >>

notesOf(n) == [k \in 1..n |-> NoteContents[((k - 1) % Len(NoteContents)) + 1]]

\* the canvas of an empty container and of a note of the greatest height
NoteCanvases == {[width |-> 1, height |-> h] : h \in {0, MaxNoteHeight}}

\* err.message of what html2canvas or pdf.save throws
Messages == {"Tainted canvas", ""}

plainText(content) == [kind |-> "plain", html |-> content]

\* the callback of blocks.forEach
blockHtml(block) ==
    IF "type" \in DOMAIN block /\ block.type = "text"
    THEN [kind |-> "text",
          html |-> IF "content" \in DOMAIN block THEN block.content ELSE "undefined"]
    ELSE [kind |-> "image",
          src |-> IF "content" \in DOMAIN block THEN block.content ELSE "undefined",
          width |-> IF "width" \in DOMAIN block /\ block.width # 0 THEN block.width ELSE 100]

\* what is appended to noteHtml for the content of a note (the notes of the
\* model that parse are arrays of objects)
noteBody(content) ==
    IF startsWith(content, "[") /\ endsWith(content, "]")
    THEN LET r == JSONparse(content)
         IN  IF r.ok THEN [k \in 1..Len(r.val) |-> blockHtml(r.val[k])]
             ELSE <<plainText(content)>>
    ELSE <<plainText(content)>>

addPage(pdf, n) == Append(pdf, [note |-> n, images |-> <<>>])

addImage(pdf, image) == [pdf EXCEPT ![Len(pdf)].images = Append(@, image)]

\* the pdf calls of the while loop: a page is added before every slice but
\* the first
RECURSIVE placeSlices(_, _, _, _)
placeSlices(pdf, n, slices, pageNum) ==
    IF slices = <<>> THEN pdf
    ELSE LET placed == addImage(IF pageNum > 0 THEN addPage(pdf, n) ELSE pdf,
                                [kind |-> "slice", sourceY |-> Head(slices).sourceY,
                                 height |-> Head(slices).height])
         IN  \* the document and the slices left are computed once an iteration
             CHOOSE out \in {placeSlices(p, n, rest, pageNum + 1) :
                                p \in {placed}, rest \in {Tail(slices)}} : TRUE

newRun ==
    [mounted |-> TRUE, pc |-> "cover", i |-> 0,
     pdf |-> <<[note |-> 0, images |-> <<>>]>>, container |-> TRUE,
     rendered |-> <<>>, slicesOf |-> <<>>, saved |-> FALSE,
     threw |-> FALSE, message |-> ""]

\* a for-loop iteration that does not start the note on a new page
enterNote_NoAddPage(run, i) ==
    [run EXCEPT !.i = i, !.rendered = Append(@, noteBody(notes[i])), !.pc = "note"]

\* the for-loop iteration of note i up to its await
enterNote(run, i) ==
    [run EXCEPT !.i = i, !.pdf = addPage(@, i),
                !.rendered = Append(@, noteBody(notes[i])), !.pc = "note"]

\* the text handed to setError without the cause
reportOf_Generic(message) == "Failed to export PDF. Check console for details."

reportOf(message) ==
    "Failed to export PDF: " \o (IF message = "" THEN "Unknown error" ELSE message)
        \o ". Check console for details."

\* the last handler was one of ProjectView
Viewed(name) ==
    /\ op' = [name |-> name, id |-> ""]
    /\ UNCHANGED <<blocks, value, pending, now, pre, edits, thrown>>
    /\ UNCHANGED <<notes, widgetVars, loopVars, readerVars>>

\* a call that returns without its finally clause
returns_NoFinally(r, run, threw, message) ==
    /\ runs' = filterIndex(runs, r - 1)
    /\ lastRun' = [run EXCEPT !.pc = "returned", !.threw = threw, !.message = message]
    /\ error' = IF threw /\ run.mounted THEN reportOf(message) ELSE error
    /\ UNCHANGED isExporting

\* catch and finally: run r returns.  A state setter of a ProjectView that
\* is no longer mounted sets nothing.
returns(r, run, threw, message) ==
    /\ runs' = filterIndex(runs, r - 1)
    /\ lastRun' = [run EXCEPT !.pc = "returned", !.container = FALSE,
                              !.threw = threw, !.message = message]
    /\ error' = IF threw /\ run.mounted THEN reportOf(message) ELSE error
    /\ isExporting' = IF run.mounted THEN FALSE ELSE isExporting

\* the for loop goes on to the next note, or is over and pdf.save is called
proceed(r, run) ==
    IF run.i < Len(notes)
    THEN /\ runs' = [runs EXCEPT ![r] = enterNote(run, run.i + 1)]
         /\ UNCHANGED <<isExporting, error, lastRun>>
    ELSE \/ returns(r, [run EXCEPT !.saved = TRUE], FALSE, "")
         \/ \E message \in Messages : returns(r, run, TRUE, message)

\* exportToPDF without the test of notes.length
exportToPDF_NoPrecondition ==
    /\ Len(runs) < MaxRuns
    /\ isExporting' = TRUE
    /\ runs' = Append(runs, newRun)
    /\ UNCHANGED <<error, lastRun>>
    /\ Viewed("exportToPDF")

\* the call up to its first await
exportToPDF ==
    /\ IF Len(notes) = 0
       THEN /\ error' = "No notes to export."
            /\ UNCHANGED <<isExporting, runs, lastRun>>
       ELSE /\ Len(runs) < MaxRuns
            /\ isExporting' = TRUE
            /\ runs' = Append(runs, newRun)
            /\ UNCHANGED <<error, lastRun>>
    /\ Viewed("exportToPDF")

\* <button onClick={exportToPDF} disabled={isExporting}>
ClickExport == ~isExporting /\ exportToPDF

CoverRasterised ==
    \E r \in 1..Len(runs) :
        /\ runs[r].pc = "cover"
        /\ proceed(r, [runs[r] EXCEPT !.pdf = addImage(@, [kind |-> "cover"])])
        /\ Viewed("html2canvas")

noteRasterised(Canvases) ==
    \E r \in 1..Len(runs), cv \in Canvases :
        /\ runs[r].pc = "note"
        /\ LET l == paginate(cv, loopStart(cv))
           IN  proceed(r, [runs[r] EXCEPT !.pdf = placeSlices(@, runs[r].i, l.slices, 0),
                                          !.slicesOf = Append(@, Len(l.slices))])
        /\ Viewed("html2canvas")

NoteRasterised == noteRasterised(NoteCanvases)

RasteriseThrows ==
    \E r \in 1..Len(runs), message \in Messages :
        /\ runs[r].pc \in {"cover", "note"}
        /\ returns(r, runs[r], TRUE, message)
        /\ Viewed("html2canvas")

\* onBack, and the same project selected again in the list: the ProjectView
\* is unmounted and a new one is mounted, its state hooks at their initial
\* values; the calls of the old one stay parked at their awaits
Remount ==
    /\ isExporting' = FALSE
    /\ error' = ""
    /\ runs' = [r \in 1..Len(runs) |-> [runs[r] EXCEPT !.mounted = FALSE]]
    /\ lastRun' = IF lastRun.pc = "none" THEN lastRun ELSE [lastRun EXCEPT !.mounted = FALSE]
    /\ Viewed("mount")

InitExport ==
    /\ notes \in {notesOf(n) : n \in 0..MaxNotes}
    /\ isExporting = FALSE
    /\ error = ""
    /\ runs = <<>>
    /\ lastRun = [pc |-> "none"]
    /\ NewNote /\ NoWidgets /\ NoCanvas /\ NoReaders

NextExport ==
    \/ ClickExport
    \/ CoverRasterised
    \/ NoteRasterised
    \/ RasteriseThrows
    \/ Remount

SpecExport == InitExport /\ [][NextExport]_vars

\* the canvases of NoteCanvases and one of width 0, for which pxPerPage is 0
AnyCanvases == NoteCanvases \cup {[width |-> 0, height |-> MaxNoteHeight]}

NoteRasterisedAny == noteRasterised(AnyCanvases)

\* the promise of a pending html2canvas call resolves or rejects
Settles == CoverRasterised \/ NoteRasterisedAny \/ RasteriseThrows

NextExportFair ==
    \/ ClickExport
    \/ CoverRasterised
    \/ NoteRasterisedAny
    \/ RasteriseThrows

\* a project of legacy notes, whose content is shown as it is
InitExportLegacy ==
    /\ notes \in {[k \in 1..n |-> "plain text"] : n \in 0..MaxNotes}
    /\ isExporting = FALSE
    /\ error = ""
    /\ runs = <<>>
    /\ lastRun = [pc |-> "none"]
    /\ NewNote /\ NoWidgets /\ NoCanvas /\ NoReaders

\* The exports made from one mounted ProjectView, in which every pending
\* html2canvas call settles in the end.
SpecExportFair == InitExportLegacy /\ [][NextExportFair]_vars /\ WF_vars(Settles)

(***************************************************************************)
(* What is drawn for a block: by the editor, and by renderNoteContent, the *)
(* read-only view of a note in ProjectView.                                *)
(***************************************************************************)
\* style={{ width: `${block.width}%` }} of the image branch of the editor
editorImageWidth(block) == block.width

\* the callback of blocks.map in renderNoteContent
viewBlock(b) ==
    IF "type" \in DOMAIN b /\ b.type = "text"
    THEN [kind |-> "text",
          html |-> IF "content" \in DOMAIN b THEN b.content ELSE "undefined"]
    ELSE [kind |-> "image",
          src |-> IF "content" \in DOMAIN b THEN b.content ELSE "undefined",
          width |-> IF "width" \in DOMAIN b /\ b.width # 0 THEN b.width ELSE 100]

renderNoteContent(content) ==
    IF startsWith(content, "[") /\ endsWith(content, "]")
    THEN LET r == JSONparse(content)
         IN  IF r.ok THEN [k \in 1..Len(r.val) |-> viewBlock(r.val[k])]
             ELSE <<plainText(content)>>
    ELSE <<plainText(content)>>

(***************************************************************************)
(* ProjectView: the text of a note that the search box is matched against. *)
(***************************************************************************)
\* blocks.map((b: any) => b.type === 'text' ? b.content : '').join(' ')
textOrEmpty(bs) == [i \in 1..Len(bs) |-> IF bs[i].type = "text" THEN bs[i].content ELSE ""]

contentText(content) ==
    IF startsWith(content, "[") /\ endsWith(content, "]")
    THEN LET r == JSONparse(content) IN IF r.ok THEN join(textOrEmpty(r.val), " ") ELSE content
    ELSE content

(***************************************************************************)
(* Properties of the block store.                                          *)
(***************************************************************************)
idsOf(bs) == {bs[i].id : i \in 1..Len(bs)}

soleText(bs) == Len(bs) = 1 /\ bs[1].type = "text"

RECURSIVE textsOf(_)
textsOf(bs) ==
    IF Len(bs) = 0 THEN <<>>
    ELSE (IF Head(bs).type = "text" THEN <<Head(bs).content>> ELSE <<>>) \o textsOf(Tail(bs))

isBracketed(s) == startsWith(s, "[") /\ endsWith(s, "]")

\* C1: in every state reachable from a fresh document the block sequence
\* holds at least one block.
C1_NeverEmpty == Len(blocks) >= 1

\* C2: removeBlock with an id that no block of the document carries leaves
\* the document as it was, a document of a single text block included.
C2_StaleRemoveIsNoOp ==
    (op.name = "removeBlock" /\ op.id \notin idsOf(pre)) => blocks = pre

\* C3: removeBlock on a document that is exactly one text block yields a
\* document of one text block with empty content, however often it is repeated.
C3_SoleTextIsReset ==
    (op.name = "removeBlock" /\ soleText(pre)) =>
        (Len(blocks) = 1 /\ blocks[1].type = "text" /\ blocks[1].content = "")

C3_Witness ==
    /\ op.name = "removeBlock"
    /\ soleText(pre)
    /\ pre[1].content # ""
    /\ ~pending
    /\ soleText(blocks)
    /\ blocks[1].content = ""

\* C4: removeBlock on a document whose only block is a text block keeps that
\* block: the block left has the id the block had before.
C4_SoleTextKeepsId ==
    (op.name = "removeBlock" /\ soleText(pre)) =>
        (Len(blocks) = 1 /\ blocks[1].id = pre[1].id)

\* C5: in every state reachable from a fresh document the last block of the
\* document is a text block.
C5_LastBlockIsText == Len(blocks) >= 1 => blocks[Len(blocks)].type = "text"

\* C6: in every reachable state the blocks of the document have pairwise
\* distinct ids, whatever the clock read at each insertion and removal.
C6_UniqueIds ==
    \A i, j \in 1..Len(blocks) : i # j => blocks[i].id # blocks[j].id

\* C7: the string handed to onChange decodes to the document it encodes: after
\* every handler, the effect's decoding of value is structurally equal to the
\* blocks the handler set; a default table comes back as the 2x3 grid with
\* headers A,B,C and 1,2.
C7_RoundTrip == op.name # "mount" => decode(value) = blocks

C7_Witness ==
    /\ op.name = "addTableBlock"
    /\ pre = <<emptyText("initial")>>
    /\ ~pending
    /\ Len(blocks) = 3
    /\ blocks[2].type = "table"
    /\ blocks[2].tableData.rows = << <<"", "", "">>, <<"", "", "">> >>
    /\ blocks[2].tableData.colHeaders = <<"A", "B", "C">>
    /\ blocks[2].tableData.rowHeaders = <<"1", "2">>

\* C8: a raw string that does not both start with '[' and end with ']', or
\* that does and fails to parse, decodes to exactly one text block with the
\* whole raw string as content and the id 'initial'.
C8_LegacyFallback ==
    (~pending /\ (~isBracketed(value) \/ ~JSONparse(value).ok)) =>
        blocks = <<[id |-> "initial", type |-> "text", content |-> value]>>

C8_Witness ==
    /\ ~pending
    /\ isBracketed(value)
    /\ ~JSONparse(value).ok
    /\ blocks = <<[id |-> "initial", type |-> "text", content |-> value]>>

\* C9: decode tests the trimmed string: a raw string that trims to a valid
\* block array is decoded as that array.
C9_TrimmedArrayTest ==
    (~pending /\ isBracketed(trim(value)) /\ JSONparse(trim(value)).ok) =>
        blocks = JSONparse(trim(value)).val

\* C10: the text searched for a structured note is the contents of its text
\* blocks, in order, joined by one space; other blocks add nothing to it.
C10_SearchTextIsTextBlocks ==
    op.name # "mount" => contentText(value) = join(textsOf(blocks), " ")

(***************************************************************************)
(* Properties of the pagination of one note.                               *)
(***************************************************************************)
RECURSIVE sumHeights(_)
sumHeights(sl) == IF sl = <<>> THEN 0 ELSE Head(sl).height + sumHeights(Tail(sl))

contiguousFromZero(sl) ==
    \A k \in 1..Len(sl) :
        /\ sl[k].height > 0
        /\ sl[k].sourceY = IF k = 1 THEN 0 ELSE sl[k - 1].sourceY + sl[k - 1].height

ceilDiv(a, b) == (a + b - 1) \div b

\* C11: when the loop has ended on a surface of height H with a page height
\* P > 0 and nothing is left over, the slices start at 0, each slice starts
\* where the one before it ends, and their heights sum to exactly H.
C11_Coverage ==
    (loop.done /\ pxPerPage(canvas) > 0 /\ loop.heightLeftPx <= 0) =>
        /\ contiguousFromZero(loop.slices)
        /\ sumHeights(loop.slices) = canvas.height * imgWidth

C11_Witness ==
    /\ loop.done
    /\ pxPerPage(canvas) > 0
    /\ loop.heightLeftPx = 0
    /\ Len(loop.slices) = 4
    /\ loop.slices[4].sourceY = 3 * pxPerPage(canvas)
    /\ loop.slices[4].height < pxPerPage(canvas)

\* C12: when the loop has ended, P > 0 and ceil(H/P) is at most the ceiling of
\* 20 pages, the number of slices is ceil(H/P), every slice but the last is a
\* full page and the last holds what is left of H.
C12_SliceCount ==
    LET H == canvas.height * imgWidth
        P == pxPerPage(canvas)
        n == Len(loop.slices)
    IN  (loop.done /\ P > 0 /\ ceilDiv(H, P) <= SafetyLimit) =>
            /\ n = ceilDiv(H, P)
            /\ \A k \in 1..(n - 1) : loop.slices[k].height = P
            /\ n > 0 => loop.slices[n].height = H - (n - 1) * P

C12_Witness ==
    /\ loop.done
    /\ pxPerPage(canvas) > 0
    /\ ceilDiv(canvas.height * imgWidth, pxPerPage(canvas)) = SafetyLimit
    /\ Len(loop.slices) = SafetyLimit
    /\ loop.heightLeftPx = 0

\* C13: whatever the height of the surface and the page height, the loop
\* produces at most 20 slices for one note.
C13_AtMostTwentySlices == Len(loop.slices) <= SafetyLimit

(***************************************************************************)
(* Properties of the export.                                               *)
(***************************************************************************)
max(a, b) == IF a > b THEN a ELSE b

RECURSIVE pagesDue(_)
pagesDue(counts) == IF counts = <<>> THEN 0 ELSE max(1, Head(counts)) + pagesDue(Tail(counts))

includes(s, t) == \E k \in 1..(Len(s) - Len(t) + 1) : SubSeq(s, k, k + Len(t) - 1) = t

\* C14: in every export that saved its file, page 1 is the cover and nothing
\* else; the pages after it are the pages of the notes in list order, every
\* note a run of one or more consecutive pages, a note of height 0 included;
\* the number of pages is 1 plus, over the notes, the greater of 1 and the
\* number of slices of the note.
C14_PageOrder ==
    (lastRun.pc = "returned" /\ lastRun.saved) =>
        LET pdf == lastRun.pdf
        IN  /\ pdf[1] = [note |-> 0, images |-> <<[kind |-> "cover"]>>]
            /\ Len(lastRun.slicesOf) = Len(notes)
            /\ \A n \in 1..Len(notes) : \E k \in 2..Len(pdf) : pdf[k].note = n
            /\ \A k \in 2..Len(pdf) :
                   /\ pdf[k].note \in 1..Len(notes)
                   /\ k > 2 => pdf[k].note \in {pdf[k - 1].note, pdf[k - 1].note + 1}
                   /\ \A image \in {pdf[k].images[j] : j \in 1..Len(pdf[k].images)} :
                          image.kind = "slice"
            /\ Len(pdf) = 1 + pagesDue(lastRun.slicesOf)

C14_Witness ==
    /\ lastRun.pc = "returned"
    /\ lastRun.saved
    /\ Len(notes) = 2
    /\ lastRun.slicesOf = <<0, 2>>
    /\ Len(lastRun.pdf) = 4
    /\ lastRun.pdf[2] = [note |-> 1, images |-> <<>>]
    /\ lastRun.pdf[4].note = 2

\* C15: exportToPDF on a project without notes sets the error the user sees
\* and goes no further: the exporting flag is not set, no run is started, no
\* page is rendered and no file is saved.
C15_EmptyProjectIsRefused ==
    /\ notes = <<>> => (~isExporting /\ runs = <<>> /\ lastRun.pc = "none")
    /\ (notes = <<>> /\ op.name = "exportToPDF") => error = "No notes to export."

C15_Witness ==
    /\ notes = <<>>
    /\ op.name = "exportToPDF"
    /\ error = "No notes to export."
    /\ ~isExporting
    /\ runs = <<>>

\* C16: at most one call of exportToPDF is in flight: while a call is parked
\* at a rasterisation no second call begins.
C16_OneExportInFlight == Len(runs) <= 1

rectangular(data) ==
    /\ Len(data.rows) >= 1
    /\ Len(data.rows[1]) >= 1
    /\ \A r \in 1..Len(data.rows) : Len(data.rows[r]) = Len(data.rows[1])

\* C18: after any sequence of addRow, addColumn, removeRow, removeColumn and
\* updateCell on the table of addTableBlock every row has the same length and
\* there is at least one row and one column; removeRow on a table of one row
\* and removeColumn on a table of one column leave the table as it was.
C18_TableRectangular ==
    /\ rectangular(table)
    /\ (op.name = "removeRow" /\ Len(pre.rows) = 1) => table = pre
    /\ (op.name = "removeColumn" /\ Len(pre.rows[1]) = 1) => table = pre

C18_Witness ==
    /\ op.name = "removeRow"
    /\ Len(pre.rows) = 1
    /\ Len(pre.rows[1]) = MaxCols
    /\ pre.rows[1][1] = "x\"y"
    /\ table = pre

\* C19: after any sequence of addPoint, removePoint, updatePoint and
\* toggleType on the chart of addChartBlock the chart has at least one point;
\* removePoint on a chart of one point leaves the chart as it was.
C19_ChartKeepsAPoint ==
    /\ Len(chart.data) >= 1
    /\ (op.name = "removePoint" /\ Len(pre.data) = 1) => chart = pre

C19_Witness ==
    /\ op.name = "removePoint"
    /\ Len(pre.data) = 1
    /\ pre.data[1].name = "Mar"
    /\ pre.type = "bar"
    /\ chart = pre

(***************************************************************************)
(* Properties of the handlers on decoded documents.                        *)
(***************************************************************************)
\* C20: removeBlock, handleTextChange, handleImageResize, handleTableChange
\* and handleChartChange return without an exception on every document the
\* effect can decode, the document decoded from "[]" included, and for every
\* block id, whether a block carries it or not.
C20_NoHandlerThrows == ~thrown

(***************************************************************************)
(* Properties of the handlers and of what is drawn for a block.            *)
(***************************************************************************)
\* C21: handleTextChange with the id of a text block replaces the content of
\* that block and nothing else; every block that is not a text block with
\* that id, and the order of the blocks, is as it was: an id that no block
\* carries, or that a block of another type carries, changes nothing.
C21_EditTextOnlyText ==
    op.name = "handleTextChange" =>
        /\ Len(blocks) = Len(pre)
        /\ \A i \in 1..Len(pre) :
               IF pre[i].type = "text" /\ pre[i].id = op.id
               THEN \E content \in TextInputs : blocks[i] = Spread(pre[i], "content", content)
               ELSE blocks[i] = pre[i]

\* C22: an image block is drawn at a width between 10 and 100 percent by the
\* editor, by the read-only view and by the export, whatever width the block
\* stores.
C22_ImageWidthClamped ==
    \A i \in 1..Len(blocks) :
        (blocks[i].type = "image" /\ "width" \in DOMAIN blocks[i]) =>
            /\ editorImageWidth(blocks[i]) \in 10..100
            /\ viewBlock(blocks[i]).width \in 10..100
            /\ blockHtml(blocks[i]).width \in 10..100

hasColHeaders(data) == "colHeaders" \in DOMAIN data

hasRowHeaders(data) == "rowHeaders" \in DOMAIN data

\* hs is what is left of old when the entry at index (0-based) is removed
isWithout(hs, old, index) ==
    /\ Len(hs) = Len(old) - 1
    /\ \A k \in 1..Len(hs) : hs[k] = old[IF k <= index THEN k ELSE k + 1]

\* C24: from a table whose stored headers match its shape, after any
\* sequence of addRow, addColumn, removeRow, removeColumn, updateColHeader
\* and updateRowHeader the stored colHeaders have as many entries as every
\* row has cells and the stored rowHeaders as many entries as there are rows;
\* removing row or column i removes the header at index i.
C24_HeadersTrackGrid ==
    /\ hasColHeaders(table) =>
           \A r \in 1..Len(table.rows) : Len(table.colHeaders) = Len(table.rows[r])
    /\ hasRowHeaders(table) => Len(table.rowHeaders) = Len(table.rows)
    /\ (op.name = "removeRow" /\ Len(pre.rows) > 1 /\ hasRowHeaders(pre)) =>
           \E i \in 0..(Len(pre.rows) - 1) :
               ToString(i) = op.id /\ isWithout(table.rowHeaders, pre.rowHeaders, i)
    /\ (op.name = "removeColumn" /\ Len(pre.rows[1]) > 1 /\ hasColHeaders(pre)) =>
           \E i \in 0..(Len(pre.rows[1]) - 1) :
               ToString(i) = op.id /\ isWithout(table.colHeaders, pre.colHeaders, i)

C24_Witness ==
    /\ op.name = "removeColumn"
    /\ op.id = "0"
    /\ Len(pre.rows) = MaxRows
    /\ hasColHeaders(pre)
    /\ pre.colHeaders = <<"A", "H", "C">>
    /\ table.colHeaders = <<"H", "C">>
    /\ Len(table.rows[1]) = 2

\* C25: derived headers are stored only where the user edited a header: on a
\* table without stored column (row) headers addRow, addColumn, removeRow,
\* removeColumn and updateCell leave them absent, and the first edit of a
\* column (row) header stores a header at the edited index and at no other.
C25_OnlyEditedHeadersStored ==
    /\ op.name \in {"addRow", "addColumn", "removeRow", "removeColumn", "updateCell"} =>
           /\ hasColHeaders(table) <=> hasColHeaders(pre)
           /\ hasRowHeaders(table) <=> hasRowHeaders(pre)
    /\ (op.name = "updateColHeader" /\ ~hasColHeaders(pre)) =>
           \A k \in DOMAIN table.colHeaders : ToString(k - 1) = op.id
    /\ (op.name = "updateRowHeader" /\ ~hasRowHeaders(pre)) =>
           \A k \in DOMAIN table.rowHeaders : ToString(k - 1) = op.id

\* C26: the header shown for a column or row is the stored header whenever
\* one is stored at that index, a stored empty string included, and the
\* derived default (the letter, the 1-based number) only when none is stored.
C26_StoredHeaderIsShown ==
    /\ \A c \in 0..(Len(table.rows[1]) - 1) :
           colHeaderShown(table, c) =
               IF hasColHeaders(table) /\ c < Len(table.colHeaders)
               THEN table.colHeaders[c + 1] ELSE fromCharCode65(c)
    /\ \A r \in 0..(Len(table.rows) - 1) :
           rowHeaderShown(table, r) =
               IF hasRowHeaders(table) /\ r < Len(table.rowHeaders)
               THEN table.rowHeaders[r + 1] ELSE ToString(r + 1)

(***************************************************************************)
(* Properties of the variants of a block.                                  *)
(***************************************************************************)
\* C27: in every state reachable from a fresh document a block has tableData
\* if and only if its type is table, and chartData if and only if its type is
\* chart: handleTableChange and handleChartChange give no payload to a text
\* or image block.
C27_VariantPayload ==
    \A i \in 1..Len(blocks) :
        /\ ("tableData" \in DOMAIN blocks[i]) <=> (blocks[i].type = "table")
        /\ ("chartData" \in DOMAIN blocks[i]) <=> (blocks[i].type = "chart")

(***************************************************************************)
(* Properties of what the export and the read-only view render.            *)
(***************************************************************************)
\* every piece rendered for the blocks bs is of the kind of its block
rendersByVariant(pieces, bs) ==
    /\ Len(pieces) = Len(bs)
    /\ \A j \in 1..Len(bs) : pieces[j].kind = bs[j].type

\* C28: the export and the read-only view render every block by its variant:
\* a text block as prose, an image block as an image, a table block as a
\* grid and a chart block as a plot; no table or chart block goes through the
\* image branch.
C28_RenderedByVariant ==
    \A k \in 1..Len(notes) :
        (/\ isBracketed(notes[k]) /\ JSONparse(notes[k]).ok
         /\ lastRun.pc = "returned" /\ k <= Len(lastRun.rendered)) =>
            /\ rendersByVariant(lastRun.rendered[k], JSONparse(notes[k]).val)
            /\ rendersByVariant(renderNoteContent(notes[k]), JSONparse(notes[k]).val)

\* C29: every export that starts ends, whatever the number of notes, the
\* heights of the canvases and the page height (0 included): the slice loop
\* of every note terminates, and when the call has returned, having saved or
\* having thrown, the container is detached and isExporting is false again.
C29_ExportEnds ==
    /\ [](lastRun.pc = "returned" => ~lastRun.container)
    /\ [](Len(runs) = 0 => ~isExporting)
    /\ (Len(runs) > 0) ~> (Len(runs) = 0 /\ ~isExporting /\ lastRun.pc = "returned")

C29_Witness ==
    /\ lastRun.pc = "returned"
    /\ lastRun.threw
    /\ Len(lastRun.slicesOf) = 2
    /\ lastRun.slicesOf[1] = SafetyLimit + 1
    /\ ~lastRun.container
    /\ ~isExporting
    /\ runs = <<>>

\* C30: when every read started by one paste or drop event has completed,
\* the document holds the blocks it held at the event and after them one
\* image block for every file of the event: no completion overwrites the
\* block that another one has inserted.
C30_OneImagePerFile ==
    (op.name = "addImageBlock" /\ readers # <<>> /\ \A k \in 1..Len(readers) : readers[k].done) =>
        LET prior == readers[1].closure
        IN  /\ Len(blocks) >= Len(prior)
            /\ SubSeq(blocks, 1, Len(prior)) = prior
            /\ \A k \in 1..Len(readers) :
                   \E i \in (Len(prior) + 1)..Len(blocks) :
                       blocks[i].type = "image" /\ blocks[i].content = readers[k].src

=============================================================================
